---- MODULE Spec2Model ----
(***************************************************************************)
(* A model of pyDictH5: the dict-based container classes of base.py        *)
(* (data, flat) and the HDF5 writer/loader of io.py.                       *)
(*                                                                         *)
(* Python values are records tagged by `kind`:                             *)
(*   group   : a data/flat instance; `items` is the dict (keys -> values), *)
(*             `attrs` the instance __dict__ (object.__setattr__ targets)  *)
(*   ndarray : a 1-d numpy array, `dtype` and the element sequence `val`   *)
(*   scalar  : a number `num`, `type` its Python/numpy type                *)
(*   opaque  : an object `obj` h5py cannot store natively                  *)
(*   None    : Python's None                                               *)
(* A str is the sequence of its '.'-separated segments, so that            *)
(* '.' in s, s.split('.') and s.rsplit('.', 1) are what the code computes. *)
(* A call's outcome is [err, val]: err is "none" or the exception raised.  *)
(***************************************************************************)
EXTENDS Integers, Sequences, FiniteSets, TLC

VARIABLES
    g,          \* the container the calls are made on
    store,      \* the HDF5 file on disk, NoFile until it is written
    fileOpen,   \* TRUE while an h5py.File handle on the file is open
    last        \* the last call: [op, arg, err, out, pre]

vars == <<g, store, fileOpen, last>>

----------------------------------------------------------------------------
(* Python values *)

None == [kind |-> "None"]
Ok(v) == [err |-> "none", val |-> v]
Raise(e) == [err |-> e, val |-> None]

Str(p) == [t |-> "str", p |-> p]
Key(s) == Str(<<s>>)
IntIdx(i) == [t |-> "int", i |-> i]
Slice(lo, hi) == [t |-> "slice", lo |-> lo, hi |-> hi]
List(ix) == [t |-> "list", ix |-> ix]
Mask(m) == [t |-> "ndarray", dtype |-> "bool", ix |-> m]
Tuple(i0, kw) == [t |-> "tuple", i0 |-> i0, kw |-> kw]

NewGroup(c) == [kind |-> "group", cls |-> c, items |-> <<>>, attrs |-> <<>>]
Array(dt, v) == [kind |-> "ndarray", dtype |-> dt, val |-> v]
Scalar(ty, v) == [kind |-> "scalar", type |-> ty, num |-> v]
Opaque(v) == [kind |-> "opaque", obj |-> v]

\* base.py:46  indx_subset_valid = (slice, np.ndarray, list, int)
indx_subset_valid == {"slice", "ndarray", "list", "int"}

\* isinstance(x, data): every group class of the model derives from data
IsData(x) == x.kind = "group"
\* isinstance(x, flat): class flat(data), tabular(flat), geodat(flat)
IsFlat(x) == x.kind = "group" /\ x.cls \in {"flat", "tabular", "geodat"}

\* s.startswith('_') for the names the model uses
StartsWithUnderscore(s) == s \in {"_tmp", "__doc__"}

\* dir(x): the attribute names of x. A dict key is not among them; an
\* attribute set through object.__setattr__ is.
DataAttrs == {"keys", "copy", "to_hdf5", "iter_data", "__doc__"}
FlatAttrs == DataAttrs \cup {"append", "subset", "empty_like"}
NdarrayAttrs == {"shape", "dtype", "copy"}
dir(x) ==
    CASE x.kind = "group" ->
            (IF IsFlat(x) THEN FlatAttrs ELSE DataAttrs) \cup DOMAIN x.attrs
      [] x.kind = "ndarray" -> NdarrayAttrs
      [] OTHER -> {"__doc__"}

Put(f, k, v) == (k :> v) @@ f

\* The keys of a dict in iteration order. Python 2 orders a dict by hash:
\* the model walks the keys in one fixed order, or in its reverse.
RECURSIVE SetToSeq(_)
SetToSeq(S) ==
    IF S = {} THEN <<>>
    ELSE LET x == CHOOSE y \in S : TRUE IN <<x>> \o SetToSeq(S \ {x})
Reverse(s) == [i \in 1..Len(s) |-> s[Len(s) + 1 - i]]
iterkeys(d, rev) ==
    IF rev THEN Reverse(SetToSeq(DOMAIN d.items)) ELSE SetToSeq(DOMAIN d.items)

----------------------------------------------------------------------------
(* data.__getitem__, base.py:138-148 *)

\* dict.__getitem__(tmp, key)
dict_getitem(tmp, key) ==
    IF tmp.kind # "group" THEN Raise("TypeError")
    ELSE IF key \in DOMAIN tmp.items THEN Ok(tmp.items[key])
    ELSE Raise("KeyError")

\* for ky in indx.split('.'): tmp = dict.__getitem__(tmp, ky)
RECURSIVE Walk(_, _)
Walk(tmp, segs) ==
    IF segs = <<>> THEN Ok(tmp)
    ELSE LET r == dict_getitem(tmp, <<Head(segs)>>)
         IN  IF r.err # "none" THEN r ELSE Walk(r.val, Tail(segs))

data_getitem_loop(self, indx) ==
    Walk(self, indx.p)

data_getitem(self, indx) ==
    IF indx.t # "str" THEN Raise("TypeError")       \* '.' not in <int, slice>
    ELSE IF Len(indx.p) = 1 THEN dict_getitem(self, indx.p)
    ELSE LET d == dict_getitem(self, indx.p)
         IN  IF d.err = "KeyError" THEN data_getitem_loop(self, indx) ELSE d

\* The dict keys followed by data.__getitem__(self, indx) when it succeeds.
Location(self, indx) ==
    IF Len(indx.p) = 1 \/ indx.p \in DOMAIN self.items THEN <<indx.p>>
    ELSE [i \in 1..Len(indx.p) |-> <<indx.p[i]>>]

RECURSIVE At(_, _)
At(x, loc) == IF loc = <<>> THEN x ELSE At(x.items[Head(loc)], Tail(loc))

\* x with the object at loc replaced by v (an in-place change of that object)
RECURSIVE ReplaceAt(_, _, _)
ReplaceAt(x, loc, v) ==
    IF loc = <<>> THEN v
    ELSE [x EXCEPT !.items =
            Put(x.items, Head(loc), ReplaceAt(x.items[Head(loc)], Tail(loc), v))]

----------------------------------------------------------------------------
(* numpy indexing of a 1-d array on its first axis *)

Min(a, b) == IF a < b THEN a ELSE b
Max(a, b) == IF a > b THEN a ELSE b

Element(arr, e) ==
    CASE arr.dtype = "O" -> IF e = 0 THEN None ELSE Opaque(e)
      [] OTHER -> Scalar(arr.dtype, e)

RECURSIVE Compress(_, _)
Compress(v, m) ==
    IF v = <<>> THEN <<>>
    ELSE (IF Head(m) = 1 THEN <<Head(v)>> ELSE <<>>) \o Compress(Tail(v), Tail(m))

\* Basic indexing (a slice) returns a view: an array on the buffer of the
\* array indexed, `base` its offset there. Indexing by a list or by a boolean
\* or integer array copies, and an int gives a scalar of a 1-d array.
View(dt, v, off) == [kind |-> "ndarray", dtype |-> dt, val |-> v, base |-> off]
IsView(arr) == "base" \in DOMAIN arr

\* arr[i] = v: the write goes to the buffer, so that the array `owner` whose
\* buffer arr is a view on shows it too
ndarray_setitem(arr, i, v) == [arr EXCEPT !.val[i + 1] = v]
ndarray_setitem_base(owner, arr, i, v) ==
    IF IsView(arr) THEN [owner EXCEPT !.val[arr.base + i + 1] = v] ELSE owner

ndarray_getitem(arr, indx) ==
    LET n == Len(arr.val) IN
    CASE indx.t = "int" ->
            LET i == IF indx.i < 0 THEN indx.i + n ELSE indx.i
            IN  IF i < 0 \/ i >= n THEN Raise("IndexError")
                ELSE Ok(Element(arr, arr.val[i + 1]))
      [] indx.t = "slice" ->
            LET lo == Min(Max(indx.lo, 0), n)
                hi == Min(Max(indx.hi, 0), n)
            IN  Ok(View(arr.dtype, SubSeq(arr.val, lo + 1, hi), lo))
      [] indx.t = "list" ->
            IF \E j \in 1..Len(indx.ix) : indx.ix[j] < 0 - n \/ indx.ix[j] >= n
            THEN Raise("IndexError")
            ELSE Ok(Array(arr.dtype,
                      [j \in 1..Len(indx.ix) |->
                          arr.val[(IF indx.ix[j] < 0 THEN indx.ix[j] + n
                                   ELSE indx.ix[j]) + 1]]))
      [] indx.t = "ndarray" ->
            IF Len(indx.ix) # n THEN Raise("IndexError")
            ELSE Ok(Array(arr.dtype, Compress(arr.val, indx.ix)))
      [] OTHER -> Raise("IndexError")               \* a str, a (index, dict) tuple

----------------------------------------------------------------------------
(* data.__setitem__, base.py:150-163 *)

RECURSIVE getitem(_, _)

\* base.py:163  dict.__setitem__(tmp, indx, val)
data_setitem_on_self(self, loc, indx, val) ==
    [self EXCEPT !.items = Put(@, <<indx>>, val)]
data_setitem_store(self, loc, indx, val) ==
    ReplaceAt(self, loc,
              [At(self, loc) EXCEPT !.items = Put(@, <<indx>>, val)])

\* base.py:160  indx in dir(tmp)
reserved_in_keys(tmp, indx) == tmp.kind = "group" /\ <<indx>> \in DOMAIN tmp.items
reserved(tmp, indx) == indx \in dir(tmp)

\* The outcome is [err, self]: self as the call leaves it.
data_setitem(self, indx, val) ==
    IF indx.t # "str" THEN [err |-> "IndexError", self |-> self]
    ELSE LET dotted == Len(indx.p) > 1
             grp == Str(SubSeq(indx.p, 1, Len(indx.p) - 1))  \* indx.rsplit('.', 1)
             nm == indx.p[Len(indx.p)]
             r == IF dotted THEN getitem(self, grp) ELSE Ok(self)
         IN  IF r.err # "none" THEN [err |-> r.err, self |-> self]
             ELSE IF reserved(r.val, nm) THEN [err |-> "KeyError", self |-> self]
             ELSE IF r.val.kind # "group" THEN [err |-> "TypeError", self |-> self]
             ELSE [err |-> "none",
                   self |-> data_setitem_store(
                               self,
                               IF dotted THEN Location(self, grp) ELSE <<>>,
                               nm, val)]

----------------------------------------------------------------------------
(* flat.subset and flat.__getitem__, base.py:374-378, 399-428 *)

RECURSIVE flat_subset(_, _, _)

flat_getitem(self, indx) ==
    IF indx.t \in indx_subset_valid \cup {"tuple"}
    THEN flat_subset(self, indx, <<>>)
    ELSE data_getitem(self, indx)

\* x[indx] for any value x
getitem(x, indx) ==
    CASE IsFlat(x) -> flat_getitem(x, indx)
      [] IsData(x) -> data_getitem(x, indx)
      [] x.kind = "ndarray" -> ndarray_getitem(x, indx)
      [] OTHER -> Raise("TypeError")

\* The child the loop of subset puts under nm, or Skip when it puts none.
Skip == [kind |-> "skip"]
subset_child_kept(self, nm, inds, kwargs) ==
    LET child == self.items[nm] IN
    IF IsData(child)
    THEN IF nm \in DOMAIN kwargs THEN getitem(child, kwargs[nm])
         ELSE IF IsFlat(child) THEN getitem(child, inds)
         ELSE Ok(child)
    ELSE getitem(child, inds)
subset_child(self, nm, inds, kwargs) ==
    LET child == self.items[nm] IN
    IF IsData(child)
    THEN IF nm \in DOMAIN kwargs THEN getitem(child, kwargs[nm])
         ELSE IF IsFlat(child) THEN getitem(child, inds)
         ELSE Ok(Skip)
    ELSE getitem(child, inds)

RECURSIVE subset_loop(_, _, _, _, _)
subset_loop(self, inds, kwargs, keys, out) ==
    IF keys = <<>> THEN Ok(out)
    ELSE LET nm == Head(keys)
             c == subset_child(self, nm, inds, kwargs)
         IN  IF c.err # "none" THEN c
             ELSE IF c.val = Skip
                  THEN subset_loop(self, inds, kwargs, Tail(keys), out)
             ELSE LET s == data_setitem(out, Str(nm), c.val)
                  IN  IF s.err # "none" THEN Raise(s.err)
                      ELSE subset_loop(self, inds, kwargs, Tail(keys), s.self)

flat_subset(self, inds, kwargs) ==
    IF inds.t = "tuple" /\ inds.i0.t \in indx_subset_valid
    THEN flat_subset(self, inds.i0, inds.kw)
    ELSE subset_loop(self, inds, kwargs, iterkeys(self, FALSE), NewGroup(self.cls))

----------------------------------------------------------------------------
(* data.__contains__, base.py:165-170 *)

data_contains(self, key) ==
    LET r == getitem(self, key)
    IN  IF r.err = "none" THEN Ok(TRUE)
        ELSE IF r.err = "KeyError" THEN Ok(FALSE)
        ELSE Raise(r.err)

----------------------------------------------------------------------------
(* data.__setattr__, base.py:256-263 *)

data_setattr_never(self, nm) == Ok(FALSE)
data_setattr_transient(self, nm) ==
    LET c == data_contains(self, Key(nm))
    IN  [err |-> c.err, val |-> StartsWithUnderscore(nm) /\ c.err = "none" /\ c.val = FALSE]

data_setattr(self, nm, val) ==
    LET t == IF StartsWithUnderscore(nm) THEN data_setattr_transient(self, nm)
             ELSE Ok(FALSE)
    IN  IF t.err # "none" THEN [err |-> t.err, self |-> self]
        ELSE IF t.val
             THEN [err |-> "none",
                   self |-> [self EXCEPT !.attrs = Put(@, nm, val)]]
             ELSE data_setitem(self, Key(nm), val)

----------------------------------------------------------------------------
(* data.iter_data, base.py:198-215: the set of the paths it yields *)

RECURSIVE iter_data(_, _)
iter_data(self, include_hidden) ==
    UNION { IF ~include_hidden /\ StartsWithUnderscore(ky[1]) THEN {}
            ELSE IF IsData(self.items[ky])
                 THEN { ky \o ky2 : ky2 \in iter_data(self.items[ky], include_hidden) }
                 ELSE { ky }
            : ky \in DOMAIN self.items }

----------------------------------------------------------------------------
(* data.iter_subgroups, base.py:178-196: the sequence of the paths it yields *)

RECURSIVE iter_subgroups(_, _)
RECURSIVE iter_subgroups_loop(_, _, _)

\* base.py:192-196: the paths yielded below the child ky. The generator of
\* the child is made by self[ky].iter_subgroups(), include_hidden left at its
\* default.
iter_subgroups_inner(self, ky, include_hidden) ==
    LET child == self.items[ky]
        kept(ky2) ==
            /\ ~(~include_hidden /\ StartsWithUnderscore(ky2[1]))
            /\ IsData(At(child, [i \in 1..Len(ky2) |-> <<ky2[i]>>]))
        sub == SelectSeq(iter_subgroups(child, FALSE), kept)
    IN  [i \in 1..Len(sub) |-> ky \o sub[i]]

iter_subgroups_loop(self, keys, include_hidden) ==
    IF keys = <<>> THEN <<>>
    ELSE LET ky == Head(keys)
             rest == iter_subgroups_loop(self, Tail(keys), include_hidden)
         IN  IF ~include_hidden /\ StartsWithUnderscore(ky[1]) THEN rest
             ELSE IF IsData(self.items[ky])
                  THEN <<ky>> \o iter_subgroups_inner(self, ky, include_hidden) \o rest
             ELSE rest

iter_subgroups(self, include_hidden) ==
    iter_subgroups_loop(self, iterkeys(self, FALSE), include_hidden)

----------------------------------------------------------------------------
(* flat.append, base.py:380-397 *)

\* np.concatenate((a, b), axis=0)
concatenate_swapped(a, b) ==
    IF b.kind # "ndarray" THEN Raise("ValueError")
    ELSE Ok(Array(a.dtype, b.val \o a.val))
concatenate(a, b) ==
    IF b.kind # "ndarray" THEN Raise("ValueError")  \* zero-dimensional operand
    ELSE IF a.dtype = b.dtype THEN Ok(Array(a.dtype, a.val \o b.val))
    ELSE IF "O" \in {a.dtype, b.dtype} THEN Ok(Array("O", a.val \o b.val))
    ELSE Raise("TypeError")                         \* invalid type promotion

\* hasattr(dat, 'append'): only flat and its subclasses define it
has_append(dat) == IsFlat(dat)

RECURSIVE flat_append_loop(_, _, _, _)

flat_append(self, other, rev) ==
    flat_append_loop(self, other, iterkeys(self, rev), rev)

append_array(self, other, nm) ==
    LET a == getitem(self, Str(nm))
        b == getitem(other, Str(nm))
    IN  IF a.err # "none" THEN [err |-> a.err, self |-> self]
        ELSE IF b.err # "none" THEN [err |-> b.err, self |-> self]
        ELSE LET c == concatenate(a.val, b.val)
             IN  IF c.err # "none" THEN [err |-> c.err, self |-> self]
                 ELSE data_setitem(self, Str(nm), c.val)

append_other(self, other, nm, rev) ==
    LET dat == self.items[nm]
        b == getitem(other, Str(nm))
    IN  IF ~has_append(dat) THEN [err |-> "AttributeError", self |-> self]
        ELSE IF b.err # "none" THEN [err |-> b.err, self |-> self]
        ELSE LET r == flat_append(dat, b.val, rev)
             IN  [err |-> r.err,
                  self |-> [self EXCEPT !.items = Put(@, nm, r.self)]]

\* The outcome is [err, self]: a failing append leaves self as changed so far.
flat_append_loop(self, other, keys, rev) ==
    IF keys = <<>> THEN [err |-> "none", self |-> self]
    ELSE LET nm == Head(keys)
             r == IF self.items[nm].kind = "ndarray"
                  THEN append_array(self, other, nm)
                  ELSE append_other(self, other, nm, rev)
         IN  IF r.err # "none" THEN r
             ELSE flat_append_loop(r.self, other, Tail(keys), rev)

----------------------------------------------------------------------------
(* _equiv_dict and data.__eq__, base.py:88-122, 250-254 *)

\* type(x): the class of a group, the kind of anything else
type(x) == IF x.kind = "group" THEN x.cls ELSE x.kind

\* nptest.assert_equal(a, b) passes
assert_equal(a, b) ==
    /\ b.kind = "ndarray"
    /\ (a.dtype = "O") = (b.dtype = "O")
    /\ a.val = b.val

\* The outcome of a comparison: the exception raised, the boolean returned
\* and whether a diagnostic was printed
EqOut(err, val, printed) == [err |-> err, val |-> val, printed |-> printed]

RECURSIVE equiv_dict(_, _, _)
RECURSIVE equiv_loop(_, _, _, _)

\* x == y for an x that is neither an array nor a dict
scalar_eq(x, y) ==
    CASE y.kind = "ndarray" ->
            \* the comparison is element-wise: its truth value is ambiguous
            IF Len(y.val) > 1 THEN Raise("ValueError")
            ELSE Ok(x.kind = "scalar" /\ y.dtype # "O" /\ y.val = <<x.num>>)
      [] y.kind = "group" -> Ok(FALSE)      \* data.__eq__(y, x): the types differ
      [] OTHER -> Ok(x = y \/ (x.kind = "scalar" /\ y.kind = "scalar" /\ x.num = y.num))

\* base.py:108-116: the asserts of the try body hold
equiv_item(d1, d2, ky, print_diff) ==
    LET x == d1.items[ky]
        y == d2.items[ky]
    IN  CASE x.kind = "ndarray" ->
                EqOut("none", type(x) = type(y) /\ assert_equal(x, y), FALSE)
          [] x.kind = "group" -> equiv_dict(x, y, print_diff)
          [] OTHER -> LET r == scalar_eq(x, y)
                      IN  EqOut(r.err, r.err = "none" /\ r.val, FALSE)

equiv_loop(d1, d2, keys, print_diff) ==
    IF keys = <<>> THEN EqOut("none", TRUE, FALSE)
    ELSE LET r == equiv_item(d1, d2, Head(keys), print_diff)
         IN  IF r.err # "none" THEN r
             ELSE IF ~r.val THEN EqOut("none", FALSE, print_diff)  \* except AssertionError
             ELSE LET t == equiv_loop(d1, d2, Tail(keys), print_diff)
                  IN  EqOut(t.err, t.val, r.printed \/ t.printed)

equiv_dict(d1, d2, print_diff) ==
    IF type(d1) # type(d2) THEN EqOut("none", FALSE, FALSE)
    ELSE IF DOMAIN d2.items = DOMAIN d1.items
         THEN equiv_loop(d1, d2, iterkeys(d1, FALSE), print_diff)
    ELSE EqOut("none", FALSE, print_diff)

data_eq(self, other, print_diff) == equiv_dict(self, other, print_diff)

----------------------------------------------------------------------------
(* The store: an HDF5 file of groups and datasets, each with attributes *)

H5Group(attrs) == [kind |-> "h5group", attrs |-> attrs, items |-> <<>>]
Dataset(dt, data, attrs) ==
    [kind |-> "dataset", dtype |-> dt, data |-> data, attrs |-> attrs]

\* pkl.dumps(x) of a value, pyDictH5/pkl.py:12-13, and pkl.loads of it, :16-20
dumps(x) == [pkl |-> x]
loads(b) == b.pkl

\* pkl.dumps(cls) of a class is the text 'c<module>\n<name>\np0\n.': the
\* module is kept as its '.'-separated segments
BaseModule == <<"pyDictH5", "base">>
dumps_class(c) ==
    CASE c \in {"data", "flat"} -> [mod |-> BaseModule, name |-> c]
      [] c = "ndarray" -> [mod |-> <<"numpy">>, name |-> c]
      [] OTHER -> [mod |-> <<"__builtin__">>, name |-> c]

\* type(dat) of a leaf value
leaf_type(dat) ==
    CASE dat.kind = "ndarray" -> "ndarray"
      [] dat.kind = "scalar" -> dat.type
      [] OTHER -> "list"

\* pkl.loads of a class pickle in an interpreter env: env.mods are the
\* importable modules, env.classes the classes they define
loads_class(env, p) ==
    IF p.mod \notin env.mods THEN Raise("ImportError")
    ELSE IF p \notin env.classes THEN Raise("AttributeError")
    ELSE Ok(p.name)

\* dat.astype('S') of a datetime64 element: the ISO text, as its whole
\* seconds and its fraction (-1 when the unit prints none)
IsDatetime(dt) == dt \in {"datetime64[s]", "datetime64[ms]"}
datetime_to_S(dt, t) ==
    IF dt = "datetime64[ms]" THEN [sec |-> t \div 1000, frac |-> t % 1000]
    ELSE [sec |-> t, frac |-> 0 - 1]
\* text.astype(type_str)
S_to_datetime(type_str, x) ==
    IF type_str = "datetime64[ms]"
    THEN x.sec * 1000 + (IF x.frac < 0 THEN 0 ELSE x.frac)
    ELSE x.sec

----------------------------------------------------------------------------
(* data.to_hdf5, base.py:279-307 *)

\* hasattr(dat, 'dtype')
has_dtype(dat) ==
    dat.kind = "ndarray" \/ (dat.kind = "scalar" /\ dat.type # "int")

object_dataset(dat) ==
    Dataset("O", [i \in 1..Len(dat.val) |-> dumps(dat.val[i])], ("_type" :> "NumPy Object Array"))

\* base.py:296-305: the dataset written for a leaf, [err, val]
to_hdf5_leaf(dat) ==
    IF ~has_dtype(dat) THEN Raise("AttributeError")
    ELSE IF dat.kind = "scalar" THEN Raise("TypeError")  \* no chunks on a scalar
    ELSE IF dat.dtype = "O" THEN Ok(object_dataset(dat))
    ELSE IF IsDatetime(dat.dtype) THEN Raise("TypeError") \* no HDF5 type for it
    ELSE Ok(Dataset(dat.dtype, dat.val, <<>>))

RECURSIVE to_hdf5_loop(_, _, _, _)

\* self.to_hdf5(buf) on a group handle: [err, val], val the group as written
\* when the call ends
to_hdf5(self, buf, rev) ==
    to_hdf5_loop(self,
                 [buf EXCEPT !.attrs = Put(@, "__pyclass__", dumps_class(self.cls))],
                 iterkeys(self, rev), rev)

to_hdf5_loop(self, buf, keys, rev) ==
    IF keys = <<>> THEN [err |-> "none", val |-> buf]
    ELSE LET nm == Head(keys)
             dat == self.items[nm]
             w == IF IsData(dat) THEN to_hdf5(dat, H5Group(<<>>), rev)
                  ELSE to_hdf5_leaf(dat)
         IN  IF w.err # "none"
             THEN [err |-> w.err,
                   val |-> IF IsData(dat)
                           THEN [buf EXCEPT !.items = Put(@, nm, w.val)]
                           ELSE buf]
             ELSE to_hdf5_loop(self, [buf EXCEPT !.items = Put(@, nm, w.val)],
                               Tail(keys), rev)

FileAttrs ==
    ("__package_name__" :> "pyDictH5") @@ ("__version__" :> "ver")

\* self.to_hdf5(name): [err, val, open]; the file is closed at base.py:306-307
to_hdf5_file(self, rev) ==
    LET w == to_hdf5(self, H5Group(FileAttrs), rev)
    IN  [err |-> w.err, val |-> w.val, open |-> w.err # "none"]

----------------------------------------------------------------------------
(* hdf5_write, io.py:9-62 *)

\* io.py:28-59: the dataset of a leaf, before its '__pyclass__' is set
hdf5_write_dataset(dat) ==
    IF dat.kind = "ndarray"
    THEN IF dat.dtype = "O" THEN object_dataset(dat)
         ELSE IF IsDatetime(dat.dtype)
              THEN Dataset("S", [i \in 1..Len(dat.val) |->
                                    datetime_to_S(dat.dtype, dat.val[i])],
                           ("_type" :> dat.dtype))
         ELSE Dataset(dat.dtype, dat.val, <<>>)
    ELSE IF dat.kind = "scalar"
         THEN Dataset(dat.type, dat.num, ("_type" :> "non-array scalar"))
         ELSE Dataset("O", dumps(dat), ("_type" :> "pickled object"))

hdf5_write_leaf(dat) ==
    LET ds == hdf5_write_dataset(dat)
    IN  [ds EXCEPT !.attrs = Put(@, "__pyclass__", dumps_class(leaf_type(dat)))]

RECURSIVE hdf5_write_loop(_, _, _, _)
hdf5_write_loop(dat, buf, keys, rev) ==
    IF keys = <<>> THEN [err |-> "none", val |-> buf]
    ELSE LET nm == Head(keys)
             d == dat.items[nm]
             w == IF IsData(d) THEN to_hdf5(d, H5Group(<<>>), rev)
                  ELSE Ok(hdf5_write_leaf(d))
         IN  IF w.err # "none"
             THEN [err |-> w.err, val |-> [buf EXCEPT !.items = Put(@, nm, w.val)]]
             ELSE hdf5_write_loop(dat, [buf EXCEPT !.items = Put(@, nm, w.val)],
                                  Tail(keys), rev)

\* hdf5_write(name, dat): [err, val, open]; the file is closed at io.py:61-62
hdf5_write(dat, rev) ==
    LET root == [H5Group(FileAttrs) EXCEPT
                    !.attrs = Put(@, "__pyclass__", dumps_class(dat.cls))]
        w == hdf5_write_loop(dat, root, iterkeys(dat, rev), rev)
    IN  [err |-> w.err, val |-> w.val, open |-> w.err # "none"]

----------------------------------------------------------------------------
(* cls_pklstr_gen and load_hdf5, io.py:65-150 *)

\* The module of each pickle cls_pklstr_gen yields: the recorded one, then
\* mod.split('.', 1)[-1] while '.' is in mod
RECURSIVE cls_pklstr_gen_mods(_)
cls_pklstr_gen_mods(mod) ==
    IF Len(mod) > 1 THEN <<mod>> \o cls_pklstr_gen_mods(Tail(mod)) ELSE <<mod>>

cls_pklstr_gen(cls_pklstr) ==
    LET mods == cls_pklstr_gen_mods(cls_pklstr.mod)
    IN  [i \in 1..Len(mods) |-> [mod |-> mods[i], name |-> cls_pklstr.name]]

\* io.py:92-105: [err, val, warned], val the class to instantiate
RECURSIVE find_class(_, _)
find_class(env, cands) ==
    IF cands = <<>> THEN [err |-> "none", val |-> "data", warned |-> TRUE]
    ELSE LET r == loads_class(env, Head(cands))
         IN  IF r.err = "ImportError" THEN find_class(env, Tail(cands))
             ELSE [err |-> r.err, val |-> r.val, warned |-> FALSE]

\* dat[()] of a 'non-array scalar' dataset: a numpy scalar
numpy_type(ty) == IF ty = "int" THEN "int64" ELSE ty

\* io.py:128-135: '' is restored as None (0 among the elements of the model)
EmptyBytes == [empty |-> TRUE]
object_element(x) == IF x = EmptyBytes THEN 0 ELSE loads(x)

\* io.py:116-144: the value of a dataset, [err, val]
load_leaf(env, dat) ==
    LET type_str == IF "_type" \in DOMAIN dat.attrs THEN dat.attrs["_type"] ELSE "None"
        cls == IF "__pyclass__" \in DOMAIN dat.attrs
               THEN loads_class(env, dat.attrs["__pyclass__"])
               ELSE Ok("ndarray")
    IN  IF cls.err # "none" THEN Raise(cls.err)
        ELSE IF type_str = "pickled object" THEN Ok(loads(dat.data))
        ELSE IF type_str = "non-array scalar"
             THEN Ok(Scalar(numpy_type(dat.dtype), dat.data))
        ELSE IF dat.dtype = "O" /\ type_str = "NumPy Object Array"
             THEN Ok(Array("O", [i \in 1..Len(dat.data) |-> object_element(dat.data[i])]))
        ELSE IF IsDatetime(type_str)
             THEN Ok(Array(type_str,
                           [i \in 1..Len(dat.data) |->
                               S_to_datetime(type_str, dat.data[i])]))
        ELSE Ok(Array(dat.dtype, dat.data))

RECURSIVE load_group(_, _)
RECURSIVE load_loop(_, _, _, _, _)

\* load_hdf5(buf) on a group handle: [err, val, warned]
load_group(env, buf) ==
    LET c == find_class(env, cls_pklstr_gen(buf.attrs["__pyclass__"]))
    IN  IF c.err # "none" THEN [err |-> c.err, val |-> None, warned |-> FALSE]
        ELSE load_loop(env, buf, SetToSeq(DOMAIN buf.items), NewGroup(c.val), c.warned)

load_loop(env, buf, keys, out, warned) ==
    IF keys = <<>> THEN [err |-> "none", val |-> out, warned |-> warned]
    ELSE LET nm == Head(keys)
             dat == buf.items[nm]
             r == IF dat.kind = "h5group" THEN load_group(env, dat)
                  ELSE LET l == load_leaf(env, dat)
                       IN  [err |-> l.err, val |-> l.val, warned |-> FALSE]
             s == data_setitem(out, Str(nm), r.val)
         IN  IF r.err # "none"
             THEN [err |-> r.err, val |-> None, warned |-> warned \/ r.warned]
             ELSE IF s.err # "none"
             THEN [err |-> s.err, val |-> None, warned |-> warned \/ r.warned]
             ELSE load_loop(env, buf, Tail(keys), s.self, warned \/ r.warned)

\* load_hdf5(name): the file is opened by `with`, io.py:86-88, so that it is
\* closed however the call ends
load_hdf5(env, file) ==
    LET r == load_group(env, file)
    IN  [err |-> r.err, val |-> r.val, warned |-> r.warned, open |-> FALSE]

----------------------------------------------------------------------------
(* load_hdf5 of base.py:49-85 *)

\* base.py:58-65: [err, val, warned]
base_find_class(env, cls_pklstr) ==
    LET r == loads_class(env, cls_pklstr)
    IN  IF r.err = "AttributeError"
        THEN [err |-> "none", val |-> "data", warned |-> TRUE]
        ELSE [err |-> r.err, val |-> r.val, warned |-> FALSE]

\* A dataset of shape (): hdf5_write creates these for scalars, io.py:53-59
IsScalarDataset(dat) ==
    /\ "_type" \in DOMAIN dat.attrs
    /\ dat.attrs["_type"] \in {"non-array scalar", "pickled object"}

\* base.py:71-82; np.array of a dataset of shape () is a 0-d array, here
\* the array of its one value
base_load_leaf(dat) ==
    IF dat.dtype = "O" /\ "_type" \in DOMAIN dat.attrs
       /\ dat.attrs["_type"] = "NumPy Object Array"
    THEN Array("O", [i \in 1..Len(dat.data) |-> object_element(dat.data[i])])
    ELSE IF IsScalarDataset(dat) THEN Array(dat.dtype, <<dat.data>>)
    ELSE Array(dat.dtype, dat.data)

RECURSIVE base_load_loop(_, _, _, _, _)

\* base.py:69 recurses with load_hdf5 of base.py
RECURSIVE base_load_group(_, _)
base_load_group(env, buf) ==
    LET c == base_find_class(env, buf.attrs["__pyclass__"])
    IN  IF c.err # "none" THEN [err |-> c.err, val |-> None, warned |-> FALSE]
        ELSE base_load_loop(env, buf, SetToSeq(DOMAIN buf.items),
                            NewGroup(c.val), c.warned)

base_load_loop(env, buf, keys, out, warned) ==
    IF keys = <<>> THEN [err |-> "none", val |-> out, warned |-> warned]
    ELSE LET nm == Head(keys)
             dat == buf.items[nm]
             r == IF dat.kind = "h5group" THEN base_load_group(env, dat)
                  ELSE [err |-> "none", val |-> base_load_leaf(dat), warned |-> FALSE]
             s == data_setitem(out, Str(nm), r.val)
         IN  IF r.err # "none"
             THEN [err |-> r.err, val |-> None, warned |-> warned \/ r.warned]
             ELSE IF s.err # "none"
             THEN [err |-> s.err, val |-> None, warned |-> warned \/ r.warned]
             ELSE base_load_loop(env, buf, Tail(keys), s.self, warned \/ r.warned)

\* base.py:53-55: the file is opened by `with`
base_load_hdf5(env, file) ==
    LET r == base_load_group(env, file)
    IN  [err |-> r.err, val |-> r.val, warned |-> r.warned, open |-> FALSE]

----------------------------------------------------------------------------
(* The calls made on the container *)

\* The most dict entries, counted through every nested group, the
\* container is grown to.
MaxNodes == 3

RECURSIVE NodeCountSeq(_, _)
RECURSIVE NodeCount(_)
NodeCount(x) ==
    IF x.kind = "group" THEN NodeCountSeq(x, SetToSeq(DOMAIN x.items)) ELSE 0
NodeCountSeq(x, keys) ==
    IF keys = <<>> THEN 0
    ELSE 1 + NodeCount(x.items[Head(keys)]) + NodeCountSeq(x, Tail(keys))

\* The longest array append grows a leaf to.
MaxLen == 4

RECURSIVE LongestArray(_)
LongestArray(x) ==
    CASE x.kind = "ndarray" -> Len(x.val)
      [] x.kind = "group" ->
            LET lens == { LongestArray(x.items[k]) : k \in DOMAIN x.items }
            IN  IF lens = {} THEN 0 ELSE CHOOSE n \in lens : \A m \in lens : m <= n
      [] OTHER -> 0

NoFile == [kind |-> "nofile"]

Call(op, arg, err, out) ==
    [op |-> op, arg |-> arg, err |-> err, out |-> out, pre |-> g]

Init ==
    /\ g \in {NewGroup("data"), NewGroup("flat")}
    /\ store = NoFile
    /\ fileOpen = FALSE
    /\ last = [op |-> "init", arg |-> None, err |-> "none", out |-> None, pre |-> g]

\* g[indx] = val
SetItem(indx, val) ==
    /\ store = NoFile
    /\ LET r == data_setitem(g, indx, val)
       IN  /\ NodeCount(r.self) <= MaxNodes
           /\ g' = r.self
           /\ last' = Call("setitem", [indx |-> indx, val |-> val], r.err, None)
    /\ UNCHANGED <<store, fileOpen>>

\* g.nm = val
SetAttr(nm, val) ==
    /\ store = NoFile
    /\ LET r == data_setattr(g, nm, val)
       IN  /\ NodeCount(r.self) <= MaxNodes
           /\ g' = r.self
           /\ last' = Call("setattr", [nm |-> nm, val |-> val], r.err, None)
    /\ UNCHANGED <<store, fileOpen>>

\* g[indx]
GetItem(indx) ==
    /\ LET r == getitem(g, indx)
       IN  last' = Call("getitem", indx, r.err, r.val)
    /\ UNCHANGED <<g, store, fileOpen>>

\* indx in g
Contains(indx) ==
    /\ LET r == data_contains(g, indx)
       IN  last' = Call("contains", indx, r.err, r.val)
    /\ UNCHANGED <<g, store, fileOpen>>

\* set(g.iter_data(include_hidden))
IterData(include_hidden) ==
    /\ last' = Call("iter_data", include_hidden, "none", iter_data(g, include_hidden))
    /\ UNCHANGED <<g, store, fileOpen>>

\* g.__eq__(other, print_diff)
Equals(other, print_diff) ==
    /\ LET r == data_eq(g, other, print_diff)
       IN  last' = Call("eq", [other |-> other, print_diff |-> print_diff], r.err,
                        [val |-> r.val, printed |-> r.printed])
    /\ UNCHANGED <<g, store, fileOpen>>

\* list(g.iter_subgroups(include_hidden))
IterSubgroups(include_hidden) ==
    /\ last' = Call("iter_subgroups", include_hidden, "none",
                    iter_subgroups(g, include_hidden))
    /\ UNCHANGED <<g, store, fileOpen>>

\* r[path][i] = v on the container r a subset returned, or on g after an
\* append: a write in place to an array leaf of the result. The source read
\* (g of the subset, other of the append) holds its leaf under the same path.
StoreElement(path, i, v) ==
    /\ store = NoFile
    /\ last.op \in {"subset", "append"}
    /\ last.err = "none"
    /\ LET result == IF last.op = "subset" THEN last.out ELSE g
           source == IF last.op = "subset" THEN g ELSE last.arg
           loc == [j \in 1..Len(path) |-> <<path[j]>>]
           r == getitem(result, Str(path))
           src == getitem(source, Str(path))
       IN  /\ r.err = "none"
           /\ r.val.kind = "ndarray"
           /\ i < Len(r.val.val)
           /\ src.err = "none"
           /\ src.val.kind = "ndarray"
           /\ LET written == ReplaceAt(result, loc, ndarray_setitem(r.val, i, v))
                  shown == ReplaceAt(source, loc,
                                     ndarray_setitem_base(src.val, r.val, i, v))
              IN  /\ g' = IF last.op = "subset" THEN shown ELSE written
                  /\ last' = [op |-> "store",
                              arg |-> [of |-> last.op, call |-> last.arg,
                                       path |-> path, i |-> i, v |-> v],
                              err |-> "none",
                              out |-> [result |-> written, source |-> shown],
                              pre |-> source]
    /\ UNCHANGED <<store, fileOpen>>

\* g.subset(inds, **kwargs)
Subset(inds, kwargs) ==
    /\ IsFlat(g)
    /\ LET r == flat_subset(g, inds, kwargs)
       IN  last' = Call("subset", [inds |-> inds, kwargs |-> kwargs], r.err, r.val)
    /\ UNCHANGED <<g, store, fileOpen>>

\* g.append(other), the dicts iterated in one order or its reverse
AppendTo(other, rev) ==
    /\ IsFlat(g)
    /\ store = NoFile
    /\ LET r == flat_append(g, other, rev)
       IN  /\ LongestArray(r.self) <= MaxLen
           /\ g' = r.self
           /\ last' = Call("append", other, r.err, None)
    /\ UNCHANGED <<store, fileOpen>>

\* hdf5_write(name, g)
Write(rev) ==
    /\ store = NoFile
    /\ LET r == hdf5_write(g, rev)
       IN  /\ store' = r.val
           /\ fileOpen' = r.open
           /\ last' = Call("hdf5_write", rev, r.err, None)
    /\ UNCHANGED g

\* g.to_hdf5(name)
ToHdf5(rev) ==
    /\ store = NoFile
    /\ LET r == to_hdf5_file(g, rev)
       IN  /\ store' = r.val
           /\ fileOpen' = r.open
           /\ last' = Call("to_hdf5", rev, r.err, None)
    /\ UNCHANGED g

\* io.load_hdf5(name) in an interpreter whose importable modules are env's.
\* A file left open for writing cannot be opened again.
Load(env) ==
    /\ store # NoFile
    /\ ~fileOpen
    /\ LET r == load_hdf5(env, store)
       IN  /\ fileOpen' = r.open
           /\ last' = Call("load_hdf5", env, r.err, [val |-> r.val, warned |-> r.warned])
    /\ UNCHANGED <<g, store>>

\* base.load_hdf5(name)
BaseLoad(env) ==
    /\ store # NoFile
    /\ ~fileOpen
    /\ LET r == base_load_hdf5(env, store)
       IN  /\ fileOpen' = r.open
           /\ last' = Call("base_load_hdf5", env, r.err,
                           [val |-> r.val, warned |-> r.warned])
    /\ UNCHANGED <<g, store>>

\* The values and indexes the calls are made with
A12 == Array("int64", <<1, 2>>)
A3 == Array("int64", <<3>>)
S7 == Scalar("int", 7)
S8 == Scalar("int", 8)
AObj == Array("O", <<0, 5>>)                \* [None, <object 5>]
ADt == Array("datetime64[ms]", <<1500>>)
Obj9 == Opaque(9)

WithItems(c, f) == [NewGroup(c) EXCEPT !.items = f]

\* Addressing: items and attributes set, read and tested
SetVals == {A12, NewGroup("data")}
SetPaths == { <<"a">>, <<"b">>, <<"a", "a">>, <<"a", "b">>, <<"a", "b", "a">>,
              <<"keys">>, <<"a", "keys">>, <<"_tmp">> }
AttrNames == {"a", "keys", "_tmp", "__doc__"}
GetPaths == { <<"a">>, <<"b">>, <<"a", "a">>, <<"a", "b">>, <<"a", "b", "a">>,
              <<"_tmp">> }

Next ==
    \/ \E p \in SetPaths, v \in SetVals : SetItem(Str(p), v)
    \/ \E nm \in AttrNames : SetAttr(nm, S7)
    \/ \E p \in GetPaths : GetItem(Str(p))
    \/ \E p \in GetPaths : Contains(Str(p))
    \/ \E h \in BOOLEAN : IterData(h)

Spec == Init /\ [][Next]_vars

\* flat: subset and append
FlatVals == {A12, S7, NewGroup("data"), NewGroup("flat")}
FlatPaths == { <<"a">>, <<"b">>, <<"a", "a">>, <<"a", "b">> }
Indexes == { IntIdx(0), IntIdx(2), Slice(0, 1), List(<<1, 0>>), Mask(<<0, 1>>),
             Tuple(Slice(0, 1), (<<"a">> :> Slice(1, 2))) }
Kwargs == { <<>>, (<<"a">> :> Slice(1, 2)) }
Others ==
    { WithItems("flat", (<<"a">> :> A3)),
      WithItems("flat", (<<"a">> :> A3) @@ (<<"b">> :> S7)),
      WithItems("flat", (<<"a">> :> A3) @@ (<<"b">> :> S8)),
      WithItems("flat", (<<"a">> :> WithItems("flat", (<<"a">> :> A3) @@ (<<"b">> :> A12)))
                        @@ (<<"b">> :> A3)),
      WithItems("flat", (<<"a">> :> WithItems("data", (<<"a">> :> A3)))) }

InitFlat == Init /\ IsFlat(g)

NextFlat ==
    \/ \E p \in FlatPaths, v \in FlatVals : SetItem(Str(p), v)
    \/ \E i \in Indexes : GetItem(i)
    \/ \E i \in Indexes, kw \in Kwargs : Subset(i, kw)
    \/ \E o \in Others, rev \in BOOLEAN : AppendTo(o, rev)

SpecFlat == InitFlat /\ [][NextFlat]_vars

\* Input and output
IOVals == {A12, AObj, ADt, S7, Obj9, NewGroup("data"), NewGroup("flat")}
IOPaths == { <<"a">>, <<"b">>, <<"a", "a">> }

BuiltinClasses ==
    { dumps_class("ndarray"), dumps_class("int"), dumps_class("list") }
BuiltinModules == { c.mod : c \in BuiltinClasses }
Env(mods, classes) ==
    [mods |-> mods \cup BuiltinModules, classes |-> classes \cup BuiltinClasses]
\* the interpreter the file was written by
EnvWriter == Env({BaseModule}, {dumps_class("data"), dumps_class("flat")})
\* the package renamed: its module base is importable as a top-level module
EnvMoved ==
    Env({<<"base">>}, { [mod |-> <<"base">>, name |-> c] : c \in {"data", "flat"} })
\* the package not installed
EnvMissing == Env({}, {})
\* the module present, the class flat renamed
EnvRenamed == Env({BaseModule}, {dumps_class("data")})
Envs == {EnvWriter, EnvMoved, EnvMissing, EnvRenamed}

NextIO ==
    \/ \E p \in IOPaths, v \in IOVals : SetItem(Str(p), v)
    \/ SetAttr("_tmp", S7)
    \/ Contains(Key("_tmp"))
    \/ IterData(FALSE)
    \/ \E rev \in BOOLEAN : Write(rev)
    \/ \E rev \in BOOLEAN : ToHdf5(rev)
    \/ \E env \in Envs : Load(env)
    \/ \E env \in Envs : BaseLoad(env)

SpecIO == Init /\ [][NextIO]_vars

\* Equality: g compared with containers of either class, holding under
\* 'a' and 'b' arrays, scalars and nested groups
A7 == Array("int64", <<7>>)
EqLeaves == {A12, A7, S7, S8}
EqVals == {A12, S7, NewGroup("data"), NewGroup("flat")}
EqPaths == { <<"a">>, <<"b">>, <<"a", "a">> }
FunctionsOn(Keys, Vals) == UNION { [D -> Vals] : D \in SUBSET Keys }
EqNested == { WithItems("data", f) : f \in FunctionsOn({<<"a">>}, {A12, S7}) }
EqOthers ==
    { WithItems(c, f) :
        c \in {"data", "flat"},
        f \in FunctionsOn({<<"a">>, <<"b">>}, EqLeaves) \cup [{<<"a">>} -> EqNested] }

NextEq ==
    \/ \E p \in EqPaths, v \in EqVals : SetItem(Str(p), v)
    \/ \E o \in EqOthers, pd \in BOOLEAN : Equals(o, pd)

SpecEq == Init /\ [][NextEq]_vars

\* Iteration over subgroups: groups nested to depth three, '_tmp' the
\* hidden key
IterVals == {A12, NewGroup("data"), NewGroup("flat")}
IterPaths == { <<"a">>, <<"_tmp">>, <<"a", "a">>, <<"a", "_tmp">>, <<"_tmp", "a">>,
               <<"a", "a", "a">>, <<"a", "a", "_tmp">>, <<"a", "_tmp", "a">> }

NextIter ==
    \/ \E p \in IterPaths, v \in IterVals : SetItem(Str(p), v)
    \/ \E h \in BOOLEAN : IterSubgroups(h)
    \/ \E h \in BOOLEAN : IterData(h)

SpecIter == Init /\ [][NextIter]_vars

\* Buffers: an array leaf of the result of a subset or an append written
\* in place
AliasVals == {A12, NewGroup("flat")}
AliasPaths == { <<"a">>, <<"b">>, <<"a", "a">> }
AliasIndexes == { IntIdx(0), Slice(0, 1), Slice(1, 2), List(<<1, 0>>), Mask(<<0, 1>>) }
AliasOthers ==
    { WithItems("flat", (<<"a">> :> A3)),
      WithItems("flat", (<<"a">> :> A3) @@ (<<"b">> :> A3)),
      WithItems("flat", (<<"a">> :> WithItems("flat", (<<"a">> :> A3)))) }

NextAlias ==
    \/ \E p \in AliasPaths, v \in AliasVals : SetItem(Str(p), v)
    \/ \E i \in AliasIndexes : Subset(i, <<>>)
    \/ \E o \in AliasOthers, rev \in BOOLEAN : AppendTo(o, rev)
    \/ \E p \in AliasPaths, i \in 0..1 : StoreElement(p, i, 9)

SpecAlias == InitFlat /\ [][NextAlias]_vars

----------------------------------------------------------------------------
(* Properties *)

IsCall(op) == last.op = op
Succeeded == last.err = "none"

\* C1: Round trip. Writing a container built from the leaf kinds (numeric
\* array, object array with None, datetime array, native scalar, opaque
\* scalar), at the top level and in nested groups, succeeds, and loading the
\* file in the writer's interpreter gives an instance that equals it.
C1_RoundTrip ==
    /\ IsCall("hdf5_write") => Succeeded
    /\ (IsCall("load_hdf5") /\ last.arg = EnvWriter) =>
            /\ Succeeded
            /\ data_eq(last.out.val, g, FALSE) = EqOut("none", TRUE, FALSE)

\* Some candidate cls_pklstr_gen yields for the recorded class resolves in env
Resolves(env, cls_pklstr) ==
    \E i \in 1..Len(cls_pklstr_gen(cls_pklstr)) :
        loads_class(env, cls_pklstr_gen(cls_pklstr)[i]).err = "none"

RECURSIVE AllResolve(_, _)
AllResolve(env, buf) ==
    /\ Resolves(env, buf.attrs["__pyclass__"])
    /\ \A k \in DOMAIN buf.items :
          buf.items[k].kind = "h5group" => AllResolve(env, buf.items[k])

\* C2: Subclass fallback. Loading a store whose root or nested group records
\* a class that no candidate resolves never raises: it warns, instantiates
\* the generic data type and populates every child.
C2_FallbackNeverRaises ==
    (IsCall("load_hdf5") /\ ~AllResolve(last.arg, store)) =>
        /\ Succeeded
        /\ last.out.warned
        /\ DOMAIN last.out.val.items = DOMAIN store.items
        /\ ~Resolves(last.arg, store.attrs["__pyclass__"]) => last.out.val.cls = "data"

\* C3: Scoped file handles. A write or a load by file name leaves no handle
\* on the file open, however the call ends.
C3_FileClosed ==
    last.op \in {"hdf5_write", "to_hdf5", "load_hdf5", "base_load_hdf5"} => ~fileOpen

\* C4: contains(path) never raises, and is true exactly when get(path)
\* succeeds.
C4_ContainsTotal ==
    IsCall("contains") =>
        /\ Succeeded
        /\ last.out = (getitem(g, last.arg).err = "none")

\* The group a set of path p is applied to, and the key it sets there
SetTarget(self, p) ==
    IF Len(p) = 1 THEN Ok(self) ELSE getitem(self, Str(SubSeq(p, 1, Len(p) - 1)))
LeafKey(p) == p[Len(p)]

\* The path an item or attribute assignment sets
SetPath == IF IsCall("setattr") THEN <<last.arg.nm>> ELSE last.arg.indx.p

\* The last call set a path whose leaf key is a non-data attribute of its
\* target group
SetOfReserved ==
    /\ last.op \in {"setitem", "setattr"}
    /\ SetTarget(last.pre, SetPath).err = "none"
    /\ SetTarget(last.pre, SetPath).val.kind = "group"
    /\ LeafKey(SetPath) \in dir(SetTarget(last.pre, SetPath).val)

\* C5 as stated: every set of a reserved leaf key, by item or by attribute,
\* raises and changes nothing.
C5_ReservedRejectedAlways ==
    SetOfReserved => (~Succeeded /\ g = last.pre)

\* C5: a set of a reserved leaf key raises KeyError and changes nothing when
\* it is made by item, direct or dotted, or by assigning an attribute whose
\* name does not begin with '_'. Assigning an attribute whose name begins with
\* '_' and is not a key is never rejected: it rebinds the attribute and
\* leaves every dict as it was.
C5_ReservedRejected ==
    SetOfReserved =>
        IF IsCall("setattr") /\ StartsWithUnderscore(last.arg.nm)
        THEN /\ Succeeded
             /\ g.items = last.pre.items
             /\ g.attrs[last.arg.nm] = last.arg.val
        ELSE /\ last.err = "KeyError"
             /\ g = last.pre

C5_Witness ==
    /\ SetOfReserved
    /\ IsCall("setitem")
    /\ Len(SetPath) = 2
    /\ last.err = "KeyError"

\* g.get(k1).get(k2)...get(kn)
RECURSIVE Chain(_, _)
Chain(x, p) ==
    IF p = <<>> THEN Ok(x)
    ELSE LET r == getitem(x, Key(Head(p)))
         IN  IF r.err # "none" THEN r ELSE Chain(r.val, Tail(p))

\* Every segment of p but the last names a group that is a direct child of
\* the one before, and the last names a direct child
RECURSIVE NamesChildren(_, _)
NamesChildren(x, p) ==
    \/ p = <<>>
    \/ /\ x.kind = "group"
       /\ <<Head(p)>> \in DOMAIN x.items
       /\ NamesChildren(x.items[<<Head(p)>>], Tail(p))

\* C6: Dotted-path equivalence. g.get('k1.k2...kn') returns what
\* g.get('k1').get('k2')...get('kn') returns, and after g.set('a.b', v)
\* succeeds g.get('a').get('b') is v while g has gained no key 'a.b'.
C6_DottedPath ==
    /\ (IsCall("getitem") /\ last.arg.t = "str" /\ NamesChildren(g, last.arg.p)) =>
            /\ Succeeded
            /\ Ok(last.out) = Chain(g, last.arg.p)
    /\ (IsCall("setitem") /\ Succeeded /\ Len(last.arg.indx.p) > 1) =>
            /\ Chain(g, last.arg.indx.p) = Ok(last.arg.val)
            /\ last.arg.indx.p \notin DOMAIN g.items
            /\ DOMAIN g.items = DOMAIN last.pre.items

C6_Witness ==
    /\ IsCall("getitem")
    /\ last.arg.t = "str"
    /\ Len(last.arg.p) = 3
    /\ NamesChildren(g, last.arg.p)
    /\ Succeeded

\* Every key of self is, in self and in other, an array, or a scalar of
\* the same value
ArraysAndEqualScalars(self, other) ==
    \A k \in DOMAIN self.items :
        /\ k \in DOMAIN other.items
        /\ \/ self.items[k].kind = "ndarray" /\ other.items[k].kind = "ndarray"
           \/ /\ self.items[k].kind = "scalar"
              /\ other.items[k].kind = "scalar"
              /\ self.items[k].num = other.items[k].num

HasScalar(x) == \E k \in DOMAIN x.items : x.items[k].kind = "scalar"

\* C7: append checks scalar property fields. It fails when self and other
\* hold different scalars under a key; when the scalars are equal (and the
\* other fields are arrays) it succeeds and leaves the scalar as it was.
C7_PropertyCheck ==
    IsCall("append") =>
        /\ (\E k \in DOMAIN last.pre.items \cap DOMAIN last.arg.items :
                /\ last.pre.items[k].kind = "scalar"
                /\ last.arg.items[k].kind = "scalar"
                /\ last.pre.items[k].num # last.arg.items[k].num) => ~Succeeded
        /\ (HasScalar(last.pre) /\ ArraysAndEqualScalars(last.pre, last.arg)) =>
                /\ Succeeded
                /\ \A k \in DOMAIN last.pre.items :
                      last.pre.items[k].kind = "scalar" => g.items[k] = last.pre.items[k]

\* after is before with other appended: the same keys, every array followed
\* by other's on axis 0, every nested group appended by the same rule
RECURSIVE Appended(_, _, _)
Appended(before, other, after) ==
    /\ after.kind = "group"
    /\ after.cls = before.cls
    /\ DOMAIN after.items = DOMAIN before.items
    /\ \A k \in DOMAIN before.items :
          /\ k \in DOMAIN other.items
          /\ CASE before.items[k].kind = "ndarray" ->
                    /\ after.items[k].kind = "ndarray"
                    /\ after.items[k].val = before.items[k].val \o other.items[k].val
               [] before.items[k].kind = "group" ->
                    Appended(before.items[k], other.items[k], after.items[k])
               [] OTHER -> FALSE

RECURSIVE SameKeys(_, _)
SameKeys(x, y) ==
    /\ x.kind = y.kind
    /\ x.kind = "group" =>
          /\ DOMAIN x.items = DOMAIN y.items
          /\ \A k \in DOMAIN x.items : SameKeys(x.items[k], y.items[k])

\* self and other have matching keys and values: under every key of self
\* other holds an array of the same dtype where self holds an array, and a
\* group with matching keys and values where self holds a flat group
RECURSIVE Appendable(_, _)
Appendable(self, other) ==
    /\ IsFlat(self)
    /\ other.kind = "group"
    /\ \A k \in DOMAIN self.items :
          /\ k \in DOMAIN other.items
          /\ \/ /\ self.items[k].kind = "ndarray"
                /\ other.items[k].kind = "ndarray"
                /\ self.items[k].dtype = other.items[k].dtype
             \/ /\ self.items[k].kind = "group"
                /\ Appendable(self.items[k], other.items[k])

\* C8: append concatenation. self.append(other) returns when the operands
\* have matching keys and values; when it returns, every array of self is
\* the old array followed by other's along axis 0 and nested groups are
\* appended by the same rule; the key set of self is unchanged however the
\* call ends.
C8_AppendConcatenates ==
    IsCall("append") =>
        /\ SameKeys(last.pre, g)
        /\ Succeeded => Appended(last.pre, last.arg, g)
        /\ Appendable(last.pre, last.arg) => Succeeded

C8_Witness ==
    /\ IsCall("append")
    /\ Succeeded
    /\ \E k \in DOMAIN g.items : g.items[k].kind = "ndarray"
    /\ \E k \in DOMAIN g.items :
          /\ g.items[k].kind = "group"
          /\ g.items[k].items # <<>>

\* The index and the per-child indexes a subset call is made with
SubsetInds ==
    IF last.arg.inds.t = "tuple" THEN last.arg.inds.i0 ELSE last.arg.inds
SubsetKwargs ==
    IF last.arg.inds.t = "tuple" THEN last.arg.inds.kw ELSE last.arg.kwargs

\* out is x indexed by inds on the first axis of every array; a group child
\* takes its own index when kw gives one, inds when it is flat, and is
\* `dropped` from out, or kept as it is, otherwise
RECURSIVE SubsetOf(_, _, _, _, _)
SubsetOf(x, inds, kw, out, dropped) ==
    /\ out.kind = "group"
    /\ out.cls = x.cls
    /\ \A k \in DOMAIN x.items :
          LET c == x.items[k] IN
          CASE c.kind = "ndarray" ->
                  /\ k \in DOMAIN out.items
                  /\ Ok(out.items[k]) = ndarray_getitem(c, inds)
            [] c.kind = "group" /\ k \in DOMAIN kw ->
                  /\ k \in DOMAIN out.items
                  /\ IsFlat(c)
                  /\ SubsetOf(c, kw[k], <<>>, out.items[k], dropped)
            [] c.kind = "group" /\ k \notin DOMAIN kw /\ IsFlat(c) ->
                  /\ k \in DOMAIN out.items
                  /\ SubsetOf(c, inds, <<>>, out.items[k], dropped)
            [] c.kind = "group" /\ k \notin DOMAIN kw /\ ~IsFlat(c) ->
                  IF dropped THEN k \notin DOMAIN out.items
                  ELSE k \in DOMAIN out.items /\ out.items[k] = c
            [] OTHER -> FALSE
    /\ DOMAIN out.items \subseteq DOMAIN x.items

\* C9 as stated: a group child that is not flat and has no index of its own
\* is left in the result as it is in the receiver.
C9_SubsetKeepsOtherGroups ==
    (IsCall("subset") /\ Succeeded) =>
        /\ g = last.pre
        /\ SubsetOf(g, SubsetInds, SubsetKwargs, last.out, FALSE)

\* C9: Subset. When g.subset(inds, **kwargs) returns, it returns a new group
\* of g's class and leaves g unchanged; every array is indexed by inds on its
\* first axis; a group child is indexed by kwargs[key] when given, by inds
\* when it is flat, and otherwise is absent from the result.
C9_Subset ==
    (IsCall("subset") /\ Succeeded) =>
        /\ g = last.pre
        /\ SubsetOf(g, SubsetInds, SubsetKwargs, last.out, TRUE)

C9_Witness ==
    /\ IsCall("subset")
    /\ Succeeded
    /\ \E k \in DOMAIN g.items : g.items[k].kind = "ndarray"
    /\ \E k \in DOMAIN g.items : g.items[k].kind = "group" /\ ~IsFlat(g.items[k])

\* g._tmp = x has been done: '_tmp' is an attribute of g, or (were the
\* assignment to go to the dict) a key
TmpAssigned == "_tmp" \in DOMAIN g.attrs \/ <<"_tmp">> \in DOMAIN g.items

\* C10 as stated: after g._tmp = x the loaded copy has no key '_tmp',
\* g.contains('_tmp') is true and iter_data() does not yield '_tmp'.
C10_TransientContained ==
    TmpAssigned =>
        /\ (IsCall("load_hdf5") /\ Succeeded) =>
                data_contains(last.out.val, Key("_tmp")) = Ok(FALSE)
        /\ (IsCall("contains") /\ last.arg = Key("_tmp")) => last.out = TRUE
        /\ IsCall("iter_data") => <<"_tmp">> \notin last.out

\* C10: Transient exclusion. After g._tmp = x the loaded copy has no key
\* '_tmp', iter_data() does not yield '_tmp', and g.contains('_tmp') is
\* false: the attribute is no key of g.
C10_TransientExcluded ==
    TmpAssigned =>
        /\ (IsCall("load_hdf5") /\ Succeeded) =>
                data_contains(last.out.val, Key("_tmp")) = Ok(FALSE)
        /\ (IsCall("contains") /\ last.arg = Key("_tmp")) =>
                (Succeeded /\ last.out = FALSE)
        /\ IsCall("iter_data") => <<"_tmp">> \notin last.out

C10_Witness ==
    /\ TmpAssigned
    /\ IsCall("load_hdf5")
    /\ Succeeded
    /\ g.items # <<>>

\* x and y are equal values: groups of one class with the same keys and
\* pairwise equal values, arrays equal element by element, scalars of one
\* value
RECURSIVE ValueEq(_, _)
ValueEq(x, y) ==
    CASE x.kind = "group" ->
            /\ y.kind = "group"
            /\ x.cls = y.cls
            /\ DOMAIN x.items = DOMAIN y.items
            /\ \A k \in DOMAIN x.items : ValueEq(x.items[k], y.items[k])
      [] x.kind = "ndarray" -> y.kind = "ndarray" /\ x.val = y.val
      [] x.kind = "scalar" -> y.kind = "scalar" /\ x.num = y.num
      [] OTHER -> x = y

\* C11: equals is a total boolean test. g.equals(other) never raises; it
\* returns true exactly when both are of one class, have the same keys and
\* every pair of values is equal, and false otherwise; with reportDiff set it
\* returns what it returns with reportDiff unset.
C11_EqualsTotal ==
    IsCall("eq") =>
        /\ Succeeded
        /\ last.out.val = ValueEq(g, last.arg.other)
        /\ data_eq(g, last.arg.other, ~last.arg.print_diff).err = last.err
        /\ data_eq(g, last.arg.other, ~last.arg.print_diff).val = last.out.val

\* The paths of the groups below x, at every depth
RECURSIVE GroupPaths(_)
GroupPaths(x) ==
    UNION { {k} \cup { k \o p : p \in GroupPaths(x.items[k]) } :
            k \in { j \in DOMAIN x.items : IsData(x.items[j]) } }

HasHiddenSegment(p) == \E i \in 1..Len(p) : StartsWithUnderscore(p[i])

IsPrefix(p, q) == Len(p) <= Len(q) /\ SubSeq(q, 1, Len(p)) = p

\* s is in depth-first order: the paths below s[i] follow it with no other
\* path between them
DepthFirst(s) ==
    \A i, j \in 1..Len(s) :
        (i < j /\ IsPrefix(s[i], s[j])) =>
            \A m \in i..j : IsPrefix(s[i], s[m])

\* C12: iterSubgroups(includeHidden) yields, depth-first and each once, the
\* path of every group below the receiver at every depth: with includeHidden
\* false all but the paths having a segment that begins with '_', with
\* includeHidden true all of them.
C12_IterSubgroups ==
    IsCall("iter_subgroups") =>
        /\ \A i, j \in 1..Len(last.out) : last.out[i] = last.out[j] => i = j
        /\ DepthFirst(last.out)
        /\ { last.out[i] : i \in 1..Len(last.out) } =
              { p \in GroupPaths(g) : last.arg \/ ~HasHiddenSegment(p) }

\* C13: No aliasing. A write in place to an array leaf of the group a subset
\* returned, or of self after an append, leaves every array leaf of the
\* source that was read (g of the subset, other of the append) unchanged.
C13_NoAliasing ==
    IsCall("store") => last.out.source = last.pre

====
